---- MODULE Spec2Model ----
(***************************************************************************)
(* rules.c of Jam - access to RULEs, TARGETs and ACTIONs.                  *)
(*                                                                         *)
(* Three groups of state, each with a specification of its own:            *)
(*   Spec          the module rule tables and the reference-counted        *)
(*                 argument lists, action templates and procedures         *)
(*                 (SpecInternal: with the static helpers enter_rule and   *)
(*                 define_rule called on their own);                       *)
(*   SpecSettings  the settings chains, their free-list and the variables  *)
(*                 they are swapped with;                                  *)
(*   SpecTargets   the target table and the TARGETS / ACTIONS chains.      *)
(* Pointers are identifiers: 0 is the null pointer.  A RULE* is the pair   *)
(* <<table's module, key>>; an argument_list*, rule_actions* or PARSE* is  *)
(* a positive integer.                                                     *)
(***************************************************************************)
EXTENDS Integers, Sequences, FiniteSets, TLC

VARIABLES
    rules,      \* module -> (rule name -> RULE): the modules' rule hashes
    args,       \* argument_list address -> [reference_count, live]
    acts,       \* rule_actions address -> [command, bindlist, flags, reference_count, live]
    parse,      \* PARSE address -> [refs, rulename]
    last,       \* the call that produced this state, with what it returned
    ncalls      \* number of calls made so far

ruleVars == <<rules, args, acts, parse, last, ncalls>>

VARIABLES
    snodes,             \* SETTINGS address -> [symbol, value, next, allocated]
    shead,              \* chain -> its head (the settings of one target), 0 if none
    settings_freelist,  \* head of the pool of released SETTINGS nodes
    env,                \* variable name -> current value (variable.c)
    slast,              \* the settings call that produced this state
    swaps,              \* the run of push/pop calls since the last other call,
                        \* with the state the run started from
    added,              \* chain -> symbols given to addsettings since it was empty
    nscalls             \* number of addsettings/freesettings/donerules calls

settingsVars == <<snodes, shead, settings_freelist, env, slast, swaps, added, nscalls>>

VARIABLES
    targethash,     \* "null", "live", or "done" once hashdone released the table it points to
    targets,        \* target name -> TARGET: the contents of the target hash
    tnodes,         \* TARGETS address -> [target, next, tail, allocated]
    tchain,         \* head of the TARGETS chain being built, 0 if none
    anodes,         \* ACTIONS address -> [action, next, tail, allocated]
    achain,         \* head of the ACTIONS chain being built, 0 if none
    appended,       \* what was appended to the two chains, in order
    tlast,          \* the target call that produced this state
    ntcalls,        \* number of target and chain calls
    ndone           \* number of donerules calls

targetVars == <<targethash, targets, tnodes, tchain, anodes, achain, appended, tlast, ntcalls>>

VARIABLES
    nm              \* a call of global_rule_name on its own: the module's and
                    \* the rule's name, the bytes of the buffer written, the result

nameVars == <<nm>>

vars == <<ruleVars, settingsVars, targetVars, ndone, nameVars>>

(***************************************************************************)
(* Bounds.                                                                 *)
(***************************************************************************)
MaxArgs == 2
MaxActs == 2
MaxProcs == 1
MaxCalls == 3

\* char name[4096] in global_rule_name
NameBufSize == 4096

ArgIds == 1..MaxArgs
ActIds == 1..MaxActs
Procs == 1..MaxProcs

\* root_module(): the module whose rule table is the global one.
root_module == ""

\* Modules are identified by their names.  Module "a" qualifies its rule "c"
\* as "ac", a name the root module can also define itself.
Modules == {root_module, "a"}
RuleNames == {"c", "ac"}

\* The names under which rules are defined in or imported into module m.
DefNames(m) == IF m = root_module THEN RuleNames ELSE {"c"}

Commands == {"cp"}
BindLists == {<<>>}
FlagSets == {0}

\* What a read of released storage may yield.
Garbage == {0, 1}

Min(a, b) == IF a < b THEN a ELSE b

Put(f, k, v) == [x \in DOMAIN f \cup {k} |-> IF x = k THEN v ELSE f[x]]

(***************************************************************************)
(* The hash collaborator: lookup and get-or-insert by key.                 *)
(***************************************************************************)
hashcheck(table, key) == key \in DOMAIN table

hashenter(table, key, data) == IF key \in DOMAIN table THEN table ELSE Put(table, key, data)

(***************************************************************************)
(* The heap as a record st = [rules, args, acts, parse, g]; g is the value *)
(* a read of released storage yields during the call.                      *)
(***************************************************************************)
RuleAt(st, r) == st.rules[r[1]][r[2]]

\* enter_rule() - return pointer to RULE, creating it if necessary in
\* target_module.
enter_rule(st, rulename, target_module) ==
    LET fresh == [name |-> rulename, procedure |-> 0, arguments |-> 0,
                  actions |-> 0, exported |-> FALSE, module |-> target_module]
    IN [st |-> [st EXCEPT !.rules[target_module] = hashenter(@, rulename, fresh)],
        r |-> <<target_module, rulename>>]

\* args_refer() - add a new reference to the given argument list
args_refer(st, a) ==
    LET o == st.args[a]
    IN [st EXCEPT !.args[a] =
            IF o.live THEN [o EXCEPT !.reference_count = o.reference_count + 1]
            ELSE [o EXCEPT !.reference_count = st.g]]

\* args_free() - release a reference to the given argument list
args_free(st, a) ==
    LET o == st.args[a]
        n == o.reference_count - 1
    IN [st EXCEPT !.args[a] =
            IF o.live THEN [reference_count |-> n, live |-> ~(n <= 0)]
            ELSE [o EXCEPT !.reference_count = st.g]]

\* actions_refer() - add a new reference to the given actions
actions_refer(st, a) ==
    LET o == st.acts[a]
    IN [st EXCEPT !.acts[a] =
            IF o.live THEN [o EXCEPT !.reference_count = o.reference_count + 1]
            ELSE [o EXCEPT !.reference_count = st.g]]

\* actions_free() - release a reference to the given actions
actions_free(st, a) ==
    LET o == st.acts[a]
        n == o.reference_count - 1
    IN [st EXCEPT !.acts[a] =
            IF o.live THEN [o EXCEPT !.reference_count = n, !.live = ~(n <= 0)]
            ELSE [o EXCEPT !.reference_count = st.g]]

\* parse_refer() / parse_free() as set_rule_body calls them: the count of the
\* references rule slots hold on a procedure.
parse_refer(st, p) == [st EXCEPT !.parse[p].refs = @ + 1]

parse_free(st, p) == [st EXCEPT !.parse[p].refs = @ - 1]

\* set_rule_body() - set the argument list and procedure of the given rule
set_rule_body(st, r, a, p) ==
    LET s1 == IF a # 0 THEN args_refer(st, a) ELSE st
        olda == RuleAt(s1, r).arguments
        s2 == IF olda # 0 THEN args_free(s1, olda) ELSE s1
        s3 == [s2 EXCEPT !.rules[r[1]][r[2]].arguments = a]
        s4 == IF p # 0 THEN parse_refer(s3, p) ELSE s3
        oldp == RuleAt(s4, r).procedure
        s5 == IF oldp # 0 THEN parse_free(s4, oldp) ELSE s4
    IN [s5 EXCEPT !.rules[r[1]][r[2]].procedure = p]

set_rule_actions(st, r, a) ==
    LET s1 == IF a # 0 THEN actions_refer(st, a) ELSE st
        olda == RuleAt(s1, r).actions
        s2 == IF olda # 0 THEN actions_free(s1, olda) ELSE s1
    IN [s2 EXCEPT !.rules[r[1]][r[2]].actions = a]

\* Mutant of define_rule: the owning module is reassigned, the body kept.
define_rule_keeps_body(st, src_module, rulename, target_module) ==
    LET e == enter_rule(st, rulename, target_module)
        r == e.r
    IN [st |-> [e.st EXCEPT !.rules[r[1]][r[2]].module = src_module], r |-> r]

\* Mutant of define_rule: clears the rule whatever module owns it.
define_rule_always_clears(st, src_module, rulename, target_module) ==
    LET e == enter_rule(st, rulename, target_module)
        r == e.r
        s1 == set_rule_body(e.st, r, 0, 0)
        s2 == set_rule_actions(s1, r, 0)
    IN [st |-> [s2 EXCEPT !.rules[r[1]][r[2]].module = src_module], r |-> r]

\* define_rule() - return pointer to RULE, creating it if necessary in
\* target_module. Prepare it to accept a body or action originating in
\* src_module.
define_rule(st, src_module, rulename, target_module) ==
    LET e == enter_rule(st, rulename, target_module)
        r == e.r
    IN IF RuleAt(e.st, r).module # src_module
       THEN LET s1 == set_rule_body(e.st, r, 0, 0)
                s2 == set_rule_actions(s1, r, 0)
            IN [st |-> [s2 EXCEPT !.rules[r[1]][r[2]].module = src_module], r |-> r]
       ELSE e

\* strncat(dst, src, n): dst followed by at most n characters of src.
strncat(dst, src, n) == dst \o SubSeq(src, 1, Min(Len(src), n))

\* The two strncat calls of global_rule_name on a buffer char name[size] = "".
qualified_name(module, name, size) ==
    strncat(strncat("", module, size - 1), name, size - 1)

\* Mutant of global_rule_name: the module's name is left out.
global_rule_name_unqualified(st, r) == RuleAt(st, r).name

\* global_name() - given a rule, return the name for a corresponding rule in
\* the global module
global_rule_name(st, r) ==
    LET R == RuleAt(st, r)
    IN IF R.module = root_module THEN R.name
       ELSE qualified_name(R.module, R.name, NameBufSize)

\* global_rule() - given a rule, produce the corresponding entry in the
\* global module
global_rule(st, r) ==
    IF RuleAt(st, r).module = root_module THEN [st |-> st, r |-> r]
    ELSE define_rule(st, RuleAt(st, r).module, global_rule_name(st, r), root_module)

\* Mutant of new_rule_body: the body is installed in the global rule whether
\* exported or not.
new_rule_body_always_mirrors(st, m, rulename, a, p, exported) ==
    LET d == define_rule(st, m, rulename, m)
        local == d.r
        s1 == [d.st EXCEPT !.rules[local[1]][local[2]].exported = exported]
        s2 == set_rule_body(s1, local, a, p)
        s3 == IF s2.parse[p].rulename = ""
              THEN [s2 EXCEPT !.parse[p].rulename = global_rule_name(s2, local)]
              ELSE s2
        gr == global_rule(s3, local)
    IN [st |-> set_rule_body(gr.st, gr.r, a, p), r |-> local]

\* Mutant of new_rule_body: an exported body is not installed in the global
\* rule.
new_rule_body_no_mirror(st, m, rulename, a, p, exported) ==
    LET d == define_rule(st, m, rulename, m)
        local == d.r
        s1 == [d.st EXCEPT !.rules[local[1]][local[2]].exported = exported]
        s2 == set_rule_body(s1, local, a, p)
        s3 == IF s2.parse[p].rulename = ""
              THEN [s2 EXCEPT !.parse[p].rulename = global_rule_name(s2, local)]
              ELSE s2
    IN IF exported
       THEN [st |-> global_rule(s3, local).st, r |-> local]
       ELSE [st |-> s3, r |-> local]

\* new_rule_body() - make a new rule named rulename in the given module, with
\* the given argument list and procedure.
new_rule_body(st, m, rulename, a, p, exported) ==
    LET d == define_rule(st, m, rulename, m)
        local == d.r
        s1 == [d.st EXCEPT !.rules[local[1]][local[2]].exported = exported]
        s2 == set_rule_body(s1, local, a, p)
        s3 == IF s2.parse[p].rulename = ""
              THEN [s2 EXCEPT !.parse[p].rulename = global_rule_name(s2, local)]
              ELSE s2
    IN IF exported
       THEN LET gr == global_rule(s3, local)
            IN [st |-> set_rule_body(gr.st, gr.r, a, p), r |-> local]
       ELSE [st |-> s3, r |-> local]

\* actions_new(): a fresh template at address id, with no reference yet.
actions_new(st, id, command, bindlist, flags) ==
    [st EXCEPT !.acts[id] = [command |-> command, bindlist |-> bindlist,
                             flags |-> flags, reference_count |-> 0, live |-> TRUE]]

\* Mutant of new_rule_actions: the template is not mirrored to the global rule.
new_rule_actions_local_only(st, id, m, rulename, command, bindlist, flags) ==
    LET d == define_rule(st, m, rulename, m)
        local == d.r
        gr == global_rule(d.st, local)
    IN [st |-> set_rule_actions(actions_new(gr.st, id, command, bindlist, flags), local, id),
        r |-> local]

new_rule_actions(st, id, m, rulename, command, bindlist, flags) ==
    LET d == define_rule(st, m, rulename, m)
        local == d.r
        gr == global_rule(d.st, local)
        s1 == set_rule_actions(actions_new(gr.st, id, command, bindlist, flags), local, id)
    IN [st |-> set_rule_actions(s1, gr.r, RuleAt(s1, local).actions), r |-> local]

\* Mutant of bindrule: a missing rule is created in m, not in the root module.
bindrule_in_module(st, rulename, m) ==
    IF hashcheck(st.rules[m], rulename) THEN [st |-> st, r |-> <<m, rulename>>]
    ELSE enter_rule(st, rulename, m)

bindrule(st, rulename, m) ==
    IF hashcheck(st.rules[m], rulename) THEN [st |-> st, r |-> <<m, rulename>>]
    ELSE enter_rule(st, rulename, root_module)

\* Mutant of import_rule: the body is imported, the actions are not.
import_rule_body_only(st, source, m, name) ==
    LET d == define_rule(st, RuleAt(st, source).module, name, m)
    IN [st |-> set_rule_body(d.st, d.r, RuleAt(d.st, source).arguments,
                             RuleAt(d.st, source).procedure),
        r |-> d.r]

import_rule(st, source, m, name) ==
    LET d == define_rule(st, RuleAt(st, source).module, name, m)
        s1 == set_rule_body(d.st, d.r, RuleAt(d.st, source).arguments,
                            RuleAt(d.st, source).procedure)
    IN [st |-> set_rule_actions(s1, d.r, RuleAt(s1, source).actions), r |-> d.r]

\* args_new() - make a new reference-counted argument list, at address id
args_new(st, id) == [st EXCEPT !.args[id] = [reference_count |-> 0, live |-> TRUE]]

Slots(tbl) == UNION {{<<m, n>> : n \in DOMAIN tbl[m]} : m \in Modules}

HeldArgs(tbl) == {tbl[r[1]][r[2]].arguments : r \in Slots(tbl)}

HeldActs(tbl) == {tbl[r[1]][r[2]].actions : r \in Slots(tbl)}

\* malloc() returns storage that is not allocated.  Addresses are
\* interchangeable, so of the free ones only the lowest that no rule points
\* to and the lowest that some rule still points to are taken.
Lowest(S) == {x \in S : \A y \in S : x <= y}

malloc(free, held) == Lowest(free \ held) \cup Lowest(free \cap held)

(***************************************************************************)
(* The calls as actions.                                                   *)
(***************************************************************************)
St(g) == [rules |-> rules, args |-> args, acts |-> acts, parse |-> parse, g |-> g]

NoRef == <<"", "">>

Call(op, m, name, a, p, exported, src_module, source, r) ==
    [op |-> op, m |-> m, name |-> name, a |-> a, p |-> p, exported |-> exported,
     src_module |-> src_module, source |-> source, r |-> r]

Commit(res, call) ==
    /\ rules' = res.st.rules
    /\ args' = res.st.args
    /\ acts' = res.st.acts
    /\ parse' = res.st.parse
    /\ last' = call
    /\ ncalls' = ncalls + 1
    /\ UNCHANGED <<settingsVars, targetVars, ndone, nameVars>>

\* The caller passes no argument list (0), one it has just made with args_new,
\* or one some rule holds; never one already released.
NewRuleBody(cap) ==
    /\ ncalls < cap
    /\ \E m \in Modules :
       \E name \in DefNames(m),
          a \in {0} \cup {x \in ArgIds : args[x].live}
                    \cup malloc({x \in ArgIds : ~args[x].live}, HeldArgs(rules)),
          p \in Procs, exported \in BOOLEAN :
          \E res \in {new_rule_body(IF a # 0 /\ ~args[a].live THEN args_new(St(g), a) ELSE St(g),
                                     m, name, a, p, exported) : g \in Garbage} :
             Commit(res, Call("new_rule_body", m, name, a, p, exported, "", NoRef, res.r))

NewRuleActions(cap) ==
    /\ ncalls < cap
    /\ \E m \in Modules :
       \E name \in DefNames(m),
          id \in malloc({x \in ActIds : ~acts[x].live}, HeldActs(rules)),
          command \in Commands, bindlist \in BindLists, flags \in FlagSets :
          \E res \in {new_rule_actions(St(g), id, m, name, command, bindlist, flags) :
                          g \in Garbage} :
             Commit(res, Call("new_rule_actions", m, name, id, 0, FALSE, "", NoRef, res.r))

BindRule(cap) ==
    /\ ncalls < cap
    /\ \E m \in Modules, name \in RuleNames :
          LET res == bindrule(St(0), name, m)
          IN Commit(res, Call("bindrule", m, name, 0, 0, FALSE, "", NoRef, res.r))

ImportRule(cap) ==
    /\ ncalls < cap
    /\ \E source \in Slots(rules), m \in Modules :
       \E name \in DefNames(m) :
          \E res \in {import_rule(St(g), source, m, name) : g \in Garbage} :
             Commit(res, Call("import_rule", m, name, 0, 0, FALSE, "", source, res.r))

(***************************************************************************)
(* Settings.  A LIST is the sequence of its strings, the empty sequence     *)
(* being the null list.                                                    *)
(***************************************************************************)
MaxSNodes == 4
MaxSetCalls == 3
MaxRun == 4
MaxPairCalls == 2

SNodeIds == 1..MaxSNodes
Chains == {"A", "B"}
OneChain == {"A"}
Symbols == {"X", "Y"}
Values == {<<>>, <<"1">>, <<"2">>}
EnvValues == {<<>>, <<"0">>}

NoNode == [symbol |-> "", value |-> <<>>, next |-> 0, allocated |-> FALSE]

\* list_append(l, nl): nl's elements after l's.
list_append(l, nl) == l \o nl

\* var_swap(symbol, value): set the variable and return its previous value.
var_swap(e, symbol, value) == [env |-> [e EXCEPT ![symbol] = value], old |-> e[symbol]]

\* The scan of addsettings: the node of the chain carrying symbol, or 0.
RECURSIVE find_setting(_, _, _)
find_setting(nodes, v, symbol) ==
    IF v = 0 THEN 0
    ELSE IF nodes[v].symbol = symbol THEN v
    ELSE find_setting(nodes, nodes[v].next, symbol)

\* Mutant of addsettings: a symbol the chain has is appended to even when
\* append is off.
addsettings_always_append(ss, fresh, head, append, symbol, value) ==
    LET v == find_setting(ss.nodes, head, symbol)
    IN IF v = 0
       THEN LET fl == ss.freelist
                n == IF fl # 0 THEN fl ELSE fresh
                s1 == IF fl # 0 THEN [ss EXCEPT !.freelist = ss.nodes[fl].next] ELSE ss
            IN [ss |-> [s1 EXCEPT !.nodes[n] = [symbol |-> symbol, value |-> value,
                                                next |-> head, allocated |-> TRUE]],
                head |-> n, found |-> FALSE]
       ELSE [ss |-> [ss EXCEPT !.nodes[v].value = list_append(@, value)],
             head |-> head, found |-> TRUE]

\* Mutant of addsettings: no scan for a previous setting, always a new node.
addsettings_no_scan(ss, fresh, head, append, symbol, value) ==
    LET fl == ss.freelist
        n == IF fl # 0 THEN fl ELSE fresh
        s1 == IF fl # 0 THEN [ss EXCEPT !.freelist = ss.nodes[fl].next] ELSE ss
    IN [ss |-> [s1 EXCEPT !.nodes[n] = [symbol |-> symbol, value |-> value,
                                        next |-> head, allocated |-> TRUE]],
        head |-> n, found |-> find_setting(ss.nodes, head, symbol) # 0]

\* addsettings() - add a deferred "set" command to a target.  ss is
\* [nodes, freelist, env]; fresh is the address malloc returns if asked.
addsettings(ss, fresh, head, append, symbol, value) ==
    LET v == find_setting(ss.nodes, head, symbol)
    IN IF v = 0
       THEN LET fl == ss.freelist
                n == IF fl # 0 THEN fl ELSE fresh
                s1 == IF fl # 0 THEN [ss EXCEPT !.freelist = ss.nodes[fl].next] ELSE ss
            IN [ss |-> [s1 EXCEPT !.nodes[n] = [symbol |-> symbol, value |-> value,
                                                next |-> head, allocated |-> TRUE]],
                head |-> n, found |-> FALSE]
       ELSE IF append
       THEN [ss |-> [ss EXCEPT !.nodes[v].value = list_append(@, value)],
             head |-> head, found |-> TRUE]
       ELSE [ss |-> [ss EXCEPT !.nodes[v].value = value], head |-> head, found |-> TRUE]

\* Mutant of pushsettings: the variable is set, its previous value not kept.
RECURSIVE pushsettings_set(_, _)
pushsettings_set(ss, v) ==
    IF v = 0 THEN ss
    ELSE pushsettings_set([ss EXCEPT !.env[ss.nodes[v].symbol] = ss.nodes[v].value],
                          ss.nodes[v].next)

\* pushsettings() - set all target specific variables
RECURSIVE pushsettings(_, _)
pushsettings(ss, v) ==
    IF v = 0 THEN ss
    ELSE LET sw == var_swap(ss.env, ss.nodes[v].symbol, ss.nodes[v].value)
         IN pushsettings([ss EXCEPT !.nodes[v].value = sw.old, !.env = sw.env],
                         ss.nodes[v].next)

\* Mutant of popsettings: nothing is swapped back.
popsettings_nothing(ss, v) == ss

\* popsettings() - reset target specific variables to their pre-push values
popsettings(ss, v) == pushsettings(ss, v)

\* Mutant of freesettings: the nodes are released to the general allocator.
RECURSIVE freesettings_to_allocator(_, _)
freesettings_to_allocator(ss, v) ==
    IF v = 0 THEN ss
    ELSE freesettings_to_allocator([ss EXCEPT !.nodes[v] = NoNode], ss.nodes[v].next)

\* freesettings() - delete a settings list.  The symbol and value of a pooled
\* node are released and never read again: they are blanked.
RECURSIVE freesettings(_, _)
freesettings(ss, v) ==
    IF v = 0 THEN ss
    ELSE LET n == ss.nodes[v].next
         IN freesettings([ss EXCEPT !.nodes[v] = [symbol |-> "", value |-> <<>>,
                                                  next |-> ss.freelist,
                                                  allocated |-> TRUE],
                                   !.freelist = v], n)

\* The loop of donerules() over the free-list.
RECURSIVE drain_freelist(_)
drain_freelist(ss) ==
    IF ss.freelist = 0 THEN ss
    ELSE LET n == ss.nodes[ss.freelist].next
         IN drain_freelist([ss EXCEPT !.nodes[ss.freelist] = NoNode, !.freelist = n])

\* The nodes of a chain, head first.
RECURSIVE ChainNodes(_, _)
ChainNodes(nodes, v) == IF v = 0 THEN <<>> ELSE <<v>> \o ChainNodes(nodes, nodes[v].next)

SS == [nodes |-> snodes, freelist |-> settings_freelist, env |-> env]

SCall(op, c, append, symbol, value, found) ==
    [op |-> op, c |-> c, append |-> append, symbol |-> symbol, value |-> value,
     found |-> found]

SCommit(ss) ==
    /\ snodes' = ss.nodes
    /\ settings_freelist' = ss.freelist
    /\ env' = ss.env

\* A call other than push/pop ends the run of swaps.
EndRun(ss) == swaps' = [run |-> <<>>, env |-> ss.env, nodes |-> ss.nodes]

AddSettings(CS) ==
    /\ nscalls < MaxSetCalls
    /\ \E c \in CS, append \in BOOLEAN, symbol \in Symbols, value \in Values,
          fresh \in Lowest({x \in SNodeIds \cup {MaxSNodes + 1} : x \notin SNodeIds \/ ~snodes[x].allocated}) :
          LET res == addsettings(SS, fresh, shead[c], append, symbol, value)
          IN /\ res.head \in SNodeIds
             /\ SCommit(res.ss)
             /\ shead' = [shead EXCEPT ![c] = res.head]
             /\ slast' = SCall("addsettings", c, append, symbol, value, res.found)
             /\ added' = [added EXCEPT ![c] = @ \cup {symbol}]
             /\ EndRun(res.ss)
             /\ nscalls' = nscalls + 1
             /\ UNCHANGED <<ruleVars, targetVars, ndone, nameVars>>

\* Within a run a chain is pushed, then popped, then pushed again, ...
Pushed(c) == Cardinality({i \in 1..Len(swaps.run) : swaps.run[i][2] = c}) % 2 = 1

PushSettings(CS) ==
    /\ Len(swaps.run) < MaxRun
    /\ \E c \in CS :
          /\ ~Pushed(c)
          /\ SCommit(pushsettings(SS, shead[c]))
          /\ slast' = SCall("pushsettings", c, FALSE, "", <<>>, FALSE)
          /\ swaps' = [swaps EXCEPT !.run = Append(@, <<"push", c>>)]
          /\ UNCHANGED <<shead, added, nscalls, ruleVars, targetVars, ndone, nameVars>>

PopSettings(CS) ==
    /\ Len(swaps.run) < MaxRun
    /\ \E c \in CS :
          /\ Pushed(c)
          /\ SCommit(popsettings(SS, shead[c]))
          /\ slast' = SCall("popsettings", c, FALSE, "", <<>>, FALSE)
          /\ swaps' = [swaps EXCEPT !.run = Append(@, <<"pop", c>>)]
          /\ UNCHANGED <<shead, added, nscalls, ruleVars, targetVars, ndone, nameVars>>

\* The caller frees a chain once and forgets it.
FreeSettings(CS) ==
    /\ nscalls < MaxSetCalls
    /\ \E c \in CS :
          /\ shead[c] # 0
          /\ LET ss == freesettings(SS, shead[c])
             IN /\ SCommit(ss)
                /\ EndRun(ss)
          /\ shead' = [shead EXCEPT ![c] = 0]
          /\ slast' = SCall("freesettings", c, FALSE, "", <<>>, FALSE)
          /\ added' = [added EXCEPT ![c] = {}]
          /\ nscalls' = nscalls + 1
          /\ UNCHANGED <<ruleVars, targetVars, ndone, nameVars>>

InitSettings ==
    /\ snodes = [n \in SNodeIds |-> NoNode]
    /\ shead = [c \in Chains |-> 0]
    /\ settings_freelist = 0
    /\ env \in [Symbols -> EnvValues]
    /\ slast = SCall("init", "", FALSE, "", <<>>, FALSE)
    /\ swaps = [run |-> <<>>, env |-> env, nodes |-> snodes]
    /\ added = [c \in Chains |-> {}]
    /\ nscalls = 0

IdleSettings ==
    /\ snodes = [n \in SNodeIds |-> NoNode]
    /\ shead = [c \in Chains |-> 0]
    /\ settings_freelist = 0
    /\ env = [s \in Symbols |-> <<>>]
    /\ slast = SCall("init", "", FALSE, "", <<>>, FALSE)
    /\ swaps = [run |-> <<>>, env |-> env, nodes |-> snodes]
    /\ added = [c \in Chains |-> {}]
    /\ nscalls = 0

(***************************************************************************)
(* Targets and chains.  A TARGET* is the target's name, an ACTION* a name.  *)
(***************************************************************************)
MaxTNodes == 4
MaxANodes == 3
MaxList == 3
MaxTgtCalls == 3
MaxDone == 1

TNodeIds == 1..MaxTNodes
ANodeIds == 1..MaxANodes
TargetNames == {"a", "b"}
ActionPtrs == {"act1", "act2"}

\* The tail field of a node that never was a chain head is never assigned.
Uninit == -1

NoTNode == [target |-> "", next |-> 0, tail |-> Uninit, allocated |-> FALSE]
NoANode == [action |-> "", next |-> 0, tail |-> Uninit, allocated |-> FALSE]

\* Mutant of bindtarget: the record is initialised on every call.
bindtarget_always_new(ts, targetname, stale) ==
    LET t0 == IF ts.targethash = "null" THEN [targethash |-> "live", targets |-> <<>>] ELSE ts
    IN [t0 EXCEPT !.targets = Put(@, targetname,
                                  [name |-> targetname, boundname |-> targetname,
                                   flags |-> {}])]

\* bindtarget() - return pointer to TARGET, creating it if necessary.
\* ts is [targethash, targets]; on a table hashdone has released the lookup
\* reads released storage and finds the name or not: stale decides.
bindtarget(ts, targetname, stale) ==
    LET t0 == IF ts.targethash = "null" THEN [targethash |-> "live", targets |-> <<>>] ELSE ts
        isnew == IF t0.targethash = "done" THEN stale ELSE ~hashcheck(t0.targets, targetname)
    IN IF isnew
       THEN [t0 EXCEPT !.targets = Put(@, targetname,
                                       [name |-> targetname, boundname |-> targetname,
                                        flags |-> {}])]
       ELSE t0

\* touchtarget() - mark a target to simulate being new
touchtarget(ts, t, stale) ==
    [bindtarget(ts, t, stale) EXCEPT !.targets[t].flags = @ \cup {"T_FLAG_TOUCHED"}]

\* Mutant of targetentry: the new node goes in front of the chain.
targetentry_front(nodes, chain, target, c) ==
    [nodes |-> [nodes EXCEPT ![c] = [target |-> target, next |-> chain, tail |-> c,
                                     allocated |-> TRUE]],
     chain |-> c]

\* targetentry() - add a TARGET to a chain of TARGETS; c is the node malloc
\* returns.  The result is [nodes, chain].
targetentry(nodes, chain, target, c) ==
    LET n1 == [nodes EXCEPT ![c] = [target |-> target, next |-> @.next, tail |-> @.tail,
                                    allocated |-> TRUE]]
        ch == IF chain = 0 THEN c ELSE chain
        n2 == IF chain = 0 THEN n1 ELSE [n1 EXCEPT ![n1[chain].tail].next = c]
        n3 == [n2 EXCEPT ![ch].tail = c]
    IN [nodes |-> [n3 EXCEPT ![c].next = 0], chain |-> ch]

\* actionlist() - append to an ACTION chain
actionlist(nodes, chain, action, c) ==
    LET n1 == [nodes EXCEPT ![c] = [action |-> action, next |-> @.next, tail |-> @.tail,
                                    allocated |-> TRUE]]
        ch == IF chain = 0 THEN c ELSE chain
        n2 == IF chain = 0 THEN n1 ELSE [n1 EXCEPT ![n1[chain].tail].next = c]
        n3 == [n2 EXCEPT ![ch].tail = c]
    IN [nodes |-> [n3 EXCEPT ![c].next = 0], chain |-> ch]

FreeNode(nodes) == Lowest({x \in DOMAIN nodes : ~nodes[x].allocated})

\* targetlist() - turn list of target names into a TARGET chain.  tc is
\* [ts, nodes, chain].
RECURSIVE targetlist(_, _, _)
targetlist(tc, tl, stale) ==
    IF tl = <<>> THEN tc
    ELSE LET ts == bindtarget(tc.ts, Head(tl), stale)
             e == targetentry(tc.nodes, tc.chain, Head(tl),
                              CHOOSE c \in FreeNode(tc.nodes) : TRUE)
         IN targetlist([ts |-> ts, nodes |-> e.nodes, chain |-> e.chain], Tail(tl), stale)

\* The items of a chain, head first.
RECURSIVE Walk(_, _, _)
Walk(nodes, c, field) == IF c = 0 THEN <<>> ELSE <<nodes[c][field]>> \o Walk(nodes, nodes[c].next, field)

RECURSIVE LastNode(_, _)
LastNode(nodes, c) == IF nodes[c].next = 0 THEN c ELSE LastNode(nodes, nodes[c].next)

TS == [targethash |-> targethash, targets |-> targets]

Lists(n) == UNION {[1..k -> TargetNames] : k \in 0..n}

FreeCount(nodes) == Cardinality({x \in DOMAIN nodes : ~nodes[x].allocated})

TCall(op, name, list) == [op |-> op, name |-> name, list |-> list]

StaleChoices == IF targethash = "done" THEN BOOLEAN ELSE {FALSE}

BindTarget ==
    /\ ntcalls < MaxTgtCalls
    /\ \E name \in TargetNames, stale \in StaleChoices :
          LET ts == bindtarget(TS, name, stale)
          IN /\ targethash' = ts.targethash
             /\ targets' = ts.targets
             /\ tlast' = TCall("bindtarget", name, <<>>)
    /\ ntcalls' = ntcalls + 1
    /\ UNCHANGED <<tnodes, tchain, anodes, achain, appended, ruleVars, settingsVars, ndone, nameVars>>

TouchTarget ==
    /\ ntcalls < MaxTgtCalls
    /\ \E name \in TargetNames, stale \in StaleChoices :
          LET ts == touchtarget(TS, name, stale)
          IN /\ targethash' = ts.targethash
             /\ targets' = ts.targets
             /\ tlast' = TCall("touchtarget", name, <<>>)
    /\ ntcalls' = ntcalls + 1
    /\ UNCHANGED <<tnodes, tchain, anodes, achain, appended, ruleVars, settingsVars, ndone, nameVars>>

\* targetentry is given a target bindtarget returned earlier.
TargetEntry ==
    /\ ntcalls < MaxTgtCalls
    /\ \E target \in DOMAIN targets, c \in FreeNode(tnodes) :
          LET e == targetentry(tnodes, tchain, target, c)
          IN /\ tnodes' = e.nodes
             /\ tchain' = e.chain
             /\ appended' = [appended EXCEPT !.targets = Append(@, target)]
             /\ tlast' = TCall("targetentry", target, <<>>)
    /\ ntcalls' = ntcalls + 1
    /\ UNCHANGED <<targethash, targets, anodes, achain, ruleVars, settingsVars, ndone, nameVars>>

TargetList ==
    /\ ntcalls < MaxTgtCalls
    /\ \E tl \in Lists(MaxList), stale \in StaleChoices :
          /\ Len(tl) <= FreeCount(tnodes)
          /\ LET tc == targetlist([ts |-> TS, nodes |-> tnodes, chain |-> tchain], tl, stale)
             IN /\ targethash' = tc.ts.targethash
                /\ targets' = tc.ts.targets
                /\ tnodes' = tc.nodes
                /\ tchain' = tc.chain
                /\ appended' = [appended EXCEPT !.targets = @ \o tl]
                /\ tlast' = TCall("targetlist", "", tl)
    /\ ntcalls' = ntcalls + 1
    /\ UNCHANGED <<anodes, achain, ruleVars, settingsVars, ndone, nameVars>>

ActionList ==
    /\ ntcalls < MaxTgtCalls
    /\ \E action \in ActionPtrs, c \in FreeNode(anodes) :
          LET e == actionlist(anodes, achain, action, c)
          IN /\ anodes' = e.nodes
             /\ achain' = e.chain
             /\ appended' = [appended EXCEPT !.actions = Append(@, action)]
             /\ tlast' = TCall("actionlist", action, <<>>)
    /\ ntcalls' = ntcalls + 1
    /\ UNCHANGED <<targethash, targets, tnodes, tchain, ruleVars, settingsVars, ndone, nameVars>>

\* hashdone() releases the table targethash points to; a null handle is left
\* alone.
hashdone(h) == IF h = "null" THEN "null" ELSE "done"

\* donerules() - free TARGET tables
DoneRules ==
    /\ ndone < MaxDone
    /\ targethash' = hashdone(targethash)
    /\ LET ss == drain_freelist(SS)
       IN /\ SCommit(ss)
          /\ EndRun(ss)
    /\ slast' = SCall("donerules", "", FALSE, "", <<>>, FALSE)
    /\ tlast' = TCall("donerules", "", <<>>)
    /\ ndone' = ndone + 1
    /\ UNCHANGED <<shead, added, nscalls, targets, tnodes, tchain, anodes, achain,
                   appended, ntcalls, ruleVars, nameVars>>

InitTargets ==
    /\ targethash = "null"
    /\ targets = <<>>
    /\ tnodes = [n \in TNodeIds |-> NoTNode]
    /\ tchain = 0
    /\ anodes = [n \in ANodeIds |-> NoANode]
    /\ achain = 0
    /\ appended = [targets |-> <<>>, actions |-> <<>>]
    /\ tlast = TCall("init", "", <<>>)
    /\ ntcalls = 0
    /\ ndone = 0

(***************************************************************************)
(* global_rule_name on its own, with a buffer of SmallBufSize bytes in      *)
(* place of the 4096.                                                      *)
(***************************************************************************)
MaxNameLen == 3
SmallBufSize == 4

Alphabet == {"m", "r"}

RECURSIVE Strs(_)
Strs(k) == IF k = 0 THEN {""} ELSE {x \o c : x \in Strs(k - 1), c \in Alphabet}

AllNames == UNION {Strs(k) : k \in 0..MaxNameLen}

\* The highest byte of the buffer the two strncat calls write, counted from
\* 1: each writes its characters after those in the buffer, then a terminator.
bytes_written(module, name, size) == Len(qualified_name(module, name, size)) + 1

\* What newstr(name) may read once bytes were written past the buffer.
Overflowed(module, name, size) ==
    {qualified_name(module, name, size),
     SubSeq(qualified_name(module, name, size), 1, size - 1),
     ""}

GlobalRuleName ==
    /\ ~nm.done
    /\ IF nm.module = root_module
       THEN nm' = [nm EXCEPT !.written = 0, !.value = nm.name, !.done = TRUE]
       ELSE LET w == bytes_written(nm.module, nm.name, SmallBufSize)
            IN \E v \in (IF w <= SmallBufSize
                         THEN {qualified_name(nm.module, nm.name, SmallBufSize)}
                         ELSE Overflowed(nm.module, nm.name, SmallBufSize)) :
                  nm' = [nm EXCEPT !.written = w, !.value = v, !.done = TRUE]
    /\ UNCHANGED <<ruleVars, settingsVars, targetVars, ndone>>

IdleName == nm = [module |-> "", name |-> "", written |-> 0, value |-> "", done |-> FALSE]

InitName ==
    \E module \in AllNames, name \in AllNames :
        nm = [module |-> module, name |-> name, written |-> 0, value |-> "",
              done |-> FALSE]

\* The static helpers called on their own.
EnterRule(cap) ==
    /\ ncalls < cap
    /\ \E m \in Modules :
       \E name \in DefNames(m) :
          LET res == enter_rule(St(0), name, m)
          IN Commit(res, Call("enter_rule", m, name, 0, 0, FALSE, "", NoRef, res.r))

DefineRule(cap) ==
    /\ ncalls < cap
    /\ \E src_module \in Modules, m \in Modules :
       \E name \in DefNames(m) :
          \E res \in {define_rule(St(g), src_module, name, m) : g \in Garbage} :
             Commit(res, Call("define_rule", m, name, 0, 0, FALSE, src_module, NoRef, res.r))

InitRules ==
    /\ rules = [m \in Modules |-> <<>>]
    /\ args = [a \in ArgIds |-> [reference_count |-> 0, live |-> FALSE]]
    /\ acts = [a \in ActIds |-> [command |-> "", bindlist |-> <<>>, flags |-> 0,
                                 reference_count |-> 0, live |-> FALSE]]
    /\ parse = [p \in Procs |-> [refs |-> 0, rulename |-> ""]]
    /\ last = Call("init", "", "", 0, 0, FALSE, "", NoRef, NoRef)
    /\ ncalls = 0

Init == InitRules /\ IdleSettings /\ InitTargets /\ IdleName

Next ==
    \/ NewRuleBody(MaxCalls)
    \/ NewRuleActions(MaxCalls)
    \/ BindRule(MaxCalls)
    \/ ImportRule(MaxCalls)

Spec == Init /\ [][Next]_vars

NextInternal ==
    \/ NewRuleBody(MaxCalls)
    \/ NewRuleActions(MaxCalls)
    \/ BindRule(MaxCalls)
    \/ ImportRule(MaxCalls)
    \/ EnterRule(MaxCalls)
    \/ DefineRule(MaxCalls)

SpecInternal == Init /\ [][NextInternal]_vars

\* The settings calls on one chain, from any values of the variables.
InitS == InitRules /\ InitSettings /\ InitTargets /\ IdleName

NextSettings ==
    \/ AddSettings(OneChain)
    \/ PushSettings(OneChain)
    \/ PopSettings(OneChain)
    \/ FreeSettings(OneChain)
    \/ DoneRules

SpecSettings == InitS /\ [][NextSettings]_vars

NextTargets ==
    \/ BindTarget
    \/ TouchTarget
    \/ TargetEntry
    \/ TargetList
    \/ ActionList
    \/ DoneRules

SpecTargets == Init /\ [][NextTargets]_vars

\* Two chains built and freed, and the pool drained.
NextPool ==
    \/ AddSettings(Chains)
    \/ FreeSettings(Chains)
    \/ DoneRules

SpecPool == Init /\ [][NextPool]_vars

\* Pushes and pops on two chains that addsettings built.
AddPair ==
    /\ nscalls < MaxPairCalls
    /\ AddSettings(Chains)

NextPair ==
    \/ AddPair
    \/ PushSettings(Chains)
    \/ PopSettings(Chains)

SpecPair == Init /\ [][NextPair]_vars

\* global_rule_name for every pair of names.
InitN == InitRules /\ IdleSettings /\ InitTargets /\ InitName

NextName == GlobalRuleName

SpecName == InitN /\ [][NextName]_vars

(***************************************************************************)
(* The claims.                                                             *)
(***************************************************************************)

\* C1: after any sequence of new_rule_body, new_rule_actions and import_rule
\* calls, no rule slot holds an argument list or an action template that has
\* been released.
C1_NoSlotHoldsReleased ==
    \A r \in Slots(rules) :
        LET R == rules[r[1]][r[2]]
        IN /\ (R.arguments # 0 => args[R.arguments].live)
           /\ (R.actions # 0 => acts[R.actions].live)

QualifiedName(m, name) == IF m = root_module THEN name ELSE m \o name

\* C2: right after new_rule_body(m, name, args, procedure, exported = true)
\* with m not the root module, the slot (m, name) and the root slot keyed by
\* m's name followed by name hold the args and the procedure just installed,
\* and bindrule of that key in the root module returns a rule with that
\* procedure.
C2_ExportSharesBody ==
    (last.op = "new_rule_body" /\ last.exported /\ last.m # root_module) =>
        LET key == last.m \o last.name
            b == bindrule(St(0), key, root_module)
        IN /\ last.name \in DOMAIN rules[last.m]
           /\ key \in DOMAIN rules[root_module]
           /\ rules[last.m][last.name].arguments = last.a
           /\ rules[root_module][key].arguments = last.a
           /\ rules[last.m][last.name].procedure = last.p
           /\ rules[root_module][key].procedure = last.p
           /\ b.r = <<root_module, key>>
           /\ RuleAt(b.st, b.r).procedure = last.p

C2_Witness ==
    /\ last.op = "new_rule_body"
    /\ last.exported
    /\ last.m # root_module
    /\ last.a # 0
    /\ rules[root_module][last.m \o last.name].arguments = last.a

\* Whether every slot the call installs its argument list into held it already.
HeldBefore(call) ==
    /\ call.name \in DOMAIN rules[call.m]
    /\ rules[call.m][call.name].arguments = call.a
    /\ (call.exported /\ call.m # root_module) =>
          /\ (call.m \o call.name) \in DOMAIN rules[root_module]
          /\ rules[root_module][call.m \o call.name].arguments = call.a

\* C3: installing a shared object into a slot that already holds it never
\* releases it, and leaves its reference count as it was: new_rule_body with
\* an argument list its slots hold already, new_rule_actions in the root
\* module, and import_rule of a rule onto itself.
C3_SelfInstallKeepsObject ==
    [][ /\ (last'.op = "new_rule_body" /\ last'.a # 0 /\ args[last'.a].live
                /\ HeldBefore(last')) =>
              /\ args'[last'.a].live
              /\ args'[last'.a].reference_count = args[last'.a].reference_count
        /\ (last'.op = "new_rule_actions" /\ last'.m = root_module) =>
              /\ acts'[last'.a].live
              /\ acts'[last'.a].reference_count = 1
        /\ (last'.op = "import_rule" /\ last'.r = last'.source) =>
              /\ args' = args
              /\ acts' = acts
              /\ parse' = parse
              /\ rules' = rules ]_vars

\* C7: bindrule always returns a rule: the slot of m's table when name is in
\* it, no table changing; else the root slot of that name, created empty and
\* owned by the root module if it was missing; never a new slot in a table
\* other than the root's.
C7_BindRuleTotal ==
    [][ last'.op = "bindrule" =>
          LET m == last'.m
              name == last'.name
          IN /\ last'.r \in Slots(rules')
             /\ \A k \in Modules \ {root_module} : rules'[k] = rules[k]
             /\ <<args', acts', parse'>> = <<args, acts, parse>>
             /\ IF name \in DOMAIN rules[m]
                THEN last'.r = <<m, name>> /\ rules' = rules
                ELSE /\ last'.r = <<root_module, name>>
                     /\ DOMAIN rules'[root_module] = DOMAIN rules[root_module] \cup {name}
                     /\ \A k \in DOMAIN rules[root_module] :
                            rules'[root_module][k] = rules[root_module][k]
                     /\ name \notin DOMAIN rules[root_module] =>
                            rules'[root_module][name] =
                                [name |-> name, procedure |-> 0, arguments |-> 0,
                                 actions |-> 0, exported |-> FALSE,
                                 module |-> root_module] ]_vars

\* bindrule of a name module "a" lacks fell back to a root rule with no body.
C7_Witness ==
    /\ last.op = "bindrule"
    /\ last.m # root_module
    /\ last.name \notin DOMAIN rules[last.m]
    /\ last.r = <<root_module, last.name>>
    /\ rules[root_module][last.name].procedure = 0

\* C9: enter_rule and define_rule return the record of (name, target module),
\* the same one on a second call, without making another; enter_rule on a
\* record that exists, and define_rule with src_module the record's owning
\* module, change no field of it and no reference count.
C9_DefineIsStable ==
    [][ last'.op \in {"enter_rule", "define_rule"} =>
          LET m == last'.m
              name == last'.name
              existed == name \in DOMAIN rules[m]
          IN /\ last'.r = <<m, name>>
             /\ name \in DOMAIN rules'[m]
             /\ (last.op = last'.op /\ last.m = m /\ last.name = name) =>
                    last'.r = last.r /\ existed
             /\ existed => \A k \in Modules : DOMAIN rules'[k] = DOMAIN rules[k]
             /\ (existed /\ (last'.op = "enter_rule"
                             \/ rules[m][name].module = last'.src_module)) =>
                    <<rules', args', acts', parse'>> = <<rules, args, acts, parse>> ]_vars

\* define_rule was called for the module that owns a rule with a body.
C9_Witness ==
    /\ last.op = "define_rule"
    /\ rules[last.m][last.name].module = last.src_module
    /\ rules[last.m][last.name].procedure # 0
    /\ rules[last.m][last.name].arguments # 0

\* C10: right after new_rule_actions(m, name, ...) the slot (m, name) and its
\* global slot hold one template, which no other slot holds and whose
\* reference count is 2 when m is not the root module and 1 when it is.
C10_ActionsShared ==
    last.op = "new_rule_actions" =>
        LET key == QualifiedName(last.m, last.name)
            id == last.a
        IN /\ last.name \in DOMAIN rules[last.m]
           /\ key \in DOMAIN rules[root_module]
           /\ rules[last.m][last.name].actions = id
           /\ rules[root_module][key].actions = id
           /\ acts[id].live
           /\ acts[id].reference_count = (IF last.m = root_module THEN 1 ELSE 2)
           /\ \A r \in Slots(rules) \ {<<last.m, last.name>>, <<root_module, key>>} :
                  rules[r[1]][r[2]].actions # id

\* new_rule_actions replaced the template of a module rule defined before.
C10_Witness ==
    /\ last.op = "new_rule_actions"
    /\ last.m # root_module
    /\ acts[last.a].reference_count = 2
    /\ \E id \in ActIds \ {last.a} : ~acts[id].live /\ acts[id].command # ""

\* The symbols of a chain, head first.
ChainSymbols(nodes, v) == [i \in 1..Len(ChainNodes(nodes, v)) |->
                              nodes[ChainNodes(nodes, v)[i]].symbol]

\* Whether the chain's nodes and the variables they name are as they were when
\* the run of swaps began.
Restored(c) ==
    \A i \in 1..Len(ChainNodes(snodes, shead[c])) :
        LET n == ChainNodes(snodes, shead[c])[i]
        IN /\ snodes[n].value = swaps.nodes[n].value
           /\ env[snodes[n].symbol] = swaps.env[snodes[n].symbol]

\* C4: pushsettings(chain) followed at once by popsettings(chain) restores
\* every variable the chain names and every node's stored value; a second
\* push, pop pair leaves the same state again.
C4_PushPopRestores ==
    \A c \in Chains :
        (swaps.run = <<<<"push", c>>, <<"pop", c>>>>
         \/ swaps.run = <<<<"push", c>>, <<"pop", c>>, <<"push", c>>, <<"pop", c>>>>) =>
            Restored(c)

\* Two pairs were run on a chain of two nodes whose values differ from the
\* variables'.
C4_Witness ==
    \E c \in Chains :
        /\ swaps.run = <<<<"push", c>>, <<"pop", c>>, <<"push", c>>, <<"pop", c>>>>
        /\ Len(ChainNodes(snodes, shead[c])) = 2
        /\ \A i \in 1..2 :
              LET n == ChainNodes(snodes, shead[c])[i]
              IN snodes[n].value # env[snodes[n].symbol]

\* C5: addsettings on a chain that has the symbol: without append the node's
\* value becomes the given value, with append the old elements followed by the
\* given ones; the head and the nodes of the chain stay.  When the symbol is
\* absent a new node holding the value becomes the head, before the old chain.
C5_AddSettingsValue ==
    [][ slast'.op = "addsettings" =>
          LET c == slast'.c
              old == ChainNodes(snodes, shead[c])
              new == ChainNodes(snodes', shead'[c])
              v == find_setting(snodes, shead[c], slast'.symbol)
          IN IF v # 0
             THEN /\ slast'.found
                  /\ shead'[c] = shead[c]
                  /\ new = old
                  /\ snodes'[v].value = (IF slast'.append
                                         THEN snodes[v].value \o slast'.value
                                         ELSE slast'.value)
                  /\ snodes'[v].symbol = slast'.symbol
                  /\ \A i \in 1..Len(old) : old[i] # v => snodes'[old[i]] = snodes[old[i]]
             ELSE /\ ~slast'.found
                  /\ new = <<shead'[c]>> \o old
                  /\ snodes'[shead'[c]].symbol = slast'.symbol
                  /\ snodes'[shead'[c]].value = slast'.value
                  /\ \A i \in 1..Len(old) : snodes'[old[i]] = snodes[old[i]] ]_vars

\* "2" was appended to the value "1" of a symbol set before.
C5_Witness ==
    /\ slast.op = "addsettings"
    /\ slast.found
    /\ slast.append
    /\ slast.value = <<"2">>
    /\ \E n \in SNodeIds :
          /\ n \in {ChainNodes(snodes, shead[slast.c])[i] :
                        i \in 1..Len(ChainNodes(snodes, shead[slast.c]))}
          /\ snodes[n].symbol = slast.symbol
          /\ snodes[n].value = <<"1", "2">>

\* C6: in a chain built by addsettings no two nodes carry the same symbol, and
\* the chain has as many nodes as distinct symbols were added.
C6_SymbolsUnique ==
    \A c \in Chains :
        LET syms == ChainSymbols(snodes, shead[c])
        IN /\ \A i, j \in 1..Len(syms) : i # j => syms[i] # syms[j]
           /\ Len(syms) = Cardinality(added[c])
           /\ {syms[i] : i \in 1..Len(syms)} = added[c]

\* A symbol the chain had was added again, to a chain of two nodes.
C6_Witness ==
    /\ slast.op = "addsettings"
    /\ slast.found
    /\ Len(ChainNodes(snodes, shead[slast.c])) = 2

\* C8: walking a TARGETS or ACTIONS chain from its head yields what was
\* appended, in order and with duplicates; the head's tail is the last node
\* and the last node's next is null.
C8_ChainKeepsOrder ==
    /\ Walk(tnodes, tchain, "target") = appended.targets
    /\ Walk(anodes, achain, "action") = appended.actions
    /\ tchain # 0 => /\ tnodes[tchain].tail = LastNode(tnodes, tchain)
                     /\ tnodes[tnodes[tchain].tail].next = 0
    /\ achain # 0 => /\ anodes[achain].tail = LastNode(anodes, achain)
                     /\ anodes[anodes[achain].tail].next = 0

\* targetlist bound a, b, a to an empty chain.
C8_Witness ==
    /\ Walk(tnodes, tchain, "target") = <<"a", "b", "a">>
    /\ tlast.op = "targetlist"
    /\ tlast.list = <<"a", "b", "a">>
    /\ Cardinality(DOMAIN targets) = 2

\* Whether none of the objects the rule points to has been released.
BodyLive(R) ==
    /\ (R.arguments # 0 => args[R.arguments].live)
    /\ (R.actions # 0 => acts[R.actions].live)

\* C11: after import_rule(source, m, name) the slot (m, name) holds the
\* arguments, procedure and actions objects of source, no object was made,
\* each of them has one reference more unless the slot held it already, the
\* slot's owning module is source's, and source is as it was.
C11_ImportShares ==
    [][ (last'.op = "import_rule" /\ BodyLive(RuleAt(St(0), last'.source))) =>
          LET S == RuleAt(St(0), last'.source)
              d == last'.r
              existed == d[2] \in DOMAIN rules[d[1]]
              D == rules'[d[1]][d[2]]
          IN /\ d = <<last'.m, last'.name>>
             /\ D.arguments = S.arguments
             /\ D.procedure = S.procedure
             /\ D.actions = S.actions
             /\ D.module = S.module
             /\ rules'[last'.source[1]][last'.source[2]] = S
             /\ \A x \in ArgIds : args'[x].live => args[x].live
             /\ \A x \in ActIds : acts'[x].live => acts[x].live
             /\ S.arguments # 0 =>
                   /\ args'[S.arguments].live
                   /\ args'[S.arguments].reference_count =
                         args[S.arguments].reference_count
                         + (IF existed /\ rules[d[1]][d[2]].arguments = S.arguments
                            THEN 0 ELSE 1)
             /\ S.actions # 0 =>
                   /\ acts'[S.actions].live
                   /\ acts'[S.actions].reference_count =
                         acts[S.actions].reference_count
                         + (IF existed /\ rules[d[1]][d[2]].actions = S.actions
                            THEN 0 ELSE 1)
             /\ S.procedure # 0 =>
                   parse'[S.procedure].refs =
                         parse[S.procedure].refs
                         + (IF existed /\ rules[d[1]][d[2]].procedure = S.procedure
                            THEN 0 ELSE 1) ]_vars

\* A rule with arguments and actions was imported into another slot.
C11_Witness ==
    /\ last.op = "import_rule"
    /\ last.r # last.source
    /\ rules[last.r[1]][last.r[2]].arguments # 0
    /\ rules[last.r[1]][last.r[2]].actions # 0
    /\ acts[rules[last.r[1]][last.r[2]].actions].reference_count = 3
    /\ args[rules[last.r[1]][last.r[2]].arguments].reference_count = 2

\* The module recorded as owner of (m, name), as define_rule finds it: that
\* of the record, or m for a record enter_rule has just made.
OwnerFound(m, name) == IF name \in DOMAIN rules[m] THEN rules[m][name].module ELSE m

\* C12: define_rule on a slot owned by a module other than src_module drops
\* one reference of each object the slot holds, leaves the slot with no
\* arguments, procedure or actions and owned by src_module; so new_rule_body
\* and new_rule_actions on a slot another module owned leave in it only what
\* the call installs.
C12_ForeignSlotCleared ==
    [][ LET m == last'.m
            name == last'.name
            R == rules'[m][name]
        IN /\ (last'.op = "define_rule" /\ OwnerFound(m, name) # last'.src_module) =>
                 /\ R.arguments = 0 /\ R.procedure = 0 /\ R.actions = 0
                 /\ R.module = last'.src_module
                 /\ name \in DOMAIN rules[m] =>
                       LET O == rules[m][name]
                       IN /\ (O.arguments # 0 /\ args[O.arguments].live) =>
                                /\ args'[O.arguments].reference_count =
                                      args[O.arguments].reference_count - 1
                                /\ args'[O.arguments].live =
                                      (args'[O.arguments].reference_count > 0)
                          /\ (O.actions # 0 /\ acts[O.actions].live) =>
                                /\ acts'[O.actions].reference_count =
                                      acts[O.actions].reference_count - 1
                                /\ acts'[O.actions].live =
                                      (acts'[O.actions].reference_count > 0)
                          /\ O.procedure # 0 =>
                                parse'[O.procedure].refs = parse[O.procedure].refs - 1
           /\ (last'.op = "new_rule_body" /\ OwnerFound(m, name) # m) =>
                 /\ R.arguments = last'.a /\ R.procedure = last'.p /\ R.actions = 0
                 /\ R.module = m
           /\ (last'.op = "new_rule_actions" /\ OwnerFound(m, name) # m) =>
                 /\ R.arguments = 0 /\ R.procedure = 0 /\ R.actions = last'.a
                 /\ R.module = m ]_vars

\* The second call was a define_rule for another module, and it dropped the
\* only reference to the procedure the first call installed.
C12_Witness ==
    /\ ncalls = 2
    /\ last.op = "define_rule"
    /\ rules[last.m][last.name].module = last.src_module
    /\ rules[last.m][last.name].procedure = 0
    /\ \E p \in Procs : parse[p].rulename # "" /\ parse[p].refs = 0

\* The names a target call binds.
BoundBy(call) ==
    IF call.op = "targetlist" THEN {call.list[i] : i \in 1..Len(call.list)}
    ELSE {call.name}

\* C13: on a table not torn down, bindtarget, touchtarget and targetlist
\* create the records of the names they bind that are missing, with boundname
\* the name and no flag (touchtarget: the touched flag), and leave every
\* record that exists as it is, except that touchtarget adds the touched
\* flag to the record of its name.
C13_BindIsGetOrCreate ==
    [][ (tlast'.op \in {"bindtarget", "touchtarget", "targetlist"}
         /\ targethash # "done") =>
          LET touched == IF tlast'.op = "touchtarget" THEN {"T_FLAG_TOUCHED"} ELSE {}
          IN /\ DOMAIN targets' = DOMAIN targets \cup BoundBy(tlast')
             /\ \A n \in DOMAIN targets :
                    targets'[n] = [targets[n] EXCEPT !.flags =
                                      IF n \in BoundBy(tlast') THEN @ \cup touched ELSE @]
             /\ \A n \in BoundBy(tlast') \ DOMAIN targets :
                    targets'[n] = [name |-> n, boundname |-> n, flags |-> touched] ]_vars

\* A target touched earlier was bound again by targetlist and is still
\* touched, the other target of the list is not.
C13_Witness ==
    /\ tlast.op = "targetlist"
    /\ targethash = "live"
    /\ BoundBy(tlast) = {"a", "b"}
    /\ targets["a"].flags = {"T_FLAG_TOUCHED"}
    /\ targets["b"].flags = {}

\* C14: for every module name and rule name, the bytes global_rule_name
\* writes to its buffer never exceed the buffer's size, and the name it
\* returns is the module's name followed by the rule's, cut to fit.
C14_NameFitsBuffer ==
    (nm.done /\ nm.module # root_module) =>
        /\ nm.written <= SmallBufSize
        /\ nm.value = SubSeq(nm.module \o nm.name, 1,
                             Min(Len(nm.module) + Len(nm.name), SmallBufSize - 1))

\* C15: in every state, a slot of a module other than root whose exported
\* flag is set holds the arguments and the procedure that the root slot keyed
\* by the module's name followed by the rule's name holds.
C15_ExportedMirrorsBody ==
    \A m \in Modules \ {root_module} :
        \A name \in DOMAIN rules[m] :
            rules[m][name].exported =>
                /\ (m \o name) \in DOMAIN rules[root_module]
                /\ rules[root_module][m \o name].arguments = rules[m][name].arguments
                /\ rules[root_module][m \o name].procedure = rules[m][name].procedure

\* Whether the slot (m, name) of table tbl is exported and holds the arguments
\* and procedure of the root slot keyed by m's name followed by name.
Mirrored(tbl, m, name) ==
    /\ name \in DOMAIN tbl[m]
    /\ tbl[m][name].exported
    /\ (m \o name) \in DOMAIN tbl[root_module]
    /\ tbl[root_module][m \o name].arguments = tbl[m][name].arguments
    /\ tbl[root_module][m \o name].procedure = tbl[m][name].procedure

\* The slots a call writes: its destination and, for new_rule_body and
\* new_rule_actions, the destination's global slot.
Written(call) ==
    IF call.op \in {"new_rule_body", "new_rule_actions"}
    THEN {<<call.m, call.name>>, <<root_module, QualifiedName(call.m, call.name)>>}
    ELSE IF call.op = "import_rule" THEN {<<call.m, call.name>>}
    ELSE {}

\* C15, amended: a slot of a module other than root shares its arguments and
\* procedure with the root slot keyed by its qualified name right after the
\* new_rule_body call that exported it, and the two keep sharing them across
\* every call that writes neither of the two slots.
C15_SharedUntilRewritten ==
    [][ \A m \in Modules \ {root_module} :
          \A name \in DOMAIN rules'[m] :
             /\ (last'.op = "new_rule_body" /\ last'.exported
                    /\ last'.m = m /\ last'.name = name) => Mirrored(rules', m, name)
             /\ (Mirrored(rules, m, name)
                    /\ Written(last') \cap {<<m, name>>, <<root_module, m \o name>>} = {}) =>
                   Mirrored(rules', m, name) ]_vars

\* An exported rule with arguments still shares them with its global slot
\* after it was imported into another slot.
C15_Witness ==
    /\ last.op = "import_rule"
    /\ last.source = <<"a", "c">>
    /\ last.r = <<root_module, "c">>
    /\ Mirrored(rules, "a", "c")
    /\ rules["a"]["c"].arguments # 0
    /\ args[rules["a"]["c"].arguments].reference_count = 3

\* The number of rule slots holding the object x in the given field.
Holders(field, x) == Cardinality({r \in Slots(rules) : rules[r[1]][r[2]][field] = x})

\* C16: the reference count of every argument list and action template is
\* the number of rule slots holding it, the object is released exactly when
\* no slot holds it, and no count is negative.
C16_CountIsHolders ==
    /\ \A x \in ArgIds :
          /\ args[x].reference_count >= 0
          /\ args[x].live = (Holders("arguments", x) > 0)
          /\ args[x].live => args[x].reference_count = Holders("arguments", x)
    /\ \A x \in ActIds :
          /\ acts[x].reference_count >= 0
          /\ acts[x].live = (Holders("actions", x) > 0)
          /\ acts[x].live => acts[x].reference_count = Holders("actions", x)

\* The node of chain c carrying symbol, 0 if none.
NodeOf(c, symbol) == find_setting(snodes, shead[c], symbol)

\* C17: for two chains, push c1, push c2, pop c2, pop c1 restores all
\* variables and both chains' stored values.  Push c1, push c2, pop c1,
\* pop c2 leaves in a variable both chains name the value c1 stored for it,
\* in c1's node the value c2 stored and in c2's node the variable's value
\* from before: the variable is not restored unless c1 stored the value it
\* had.
C17_NestedRestores ==
    \A c1, c2 \in Chains :
        c1 # c2 =>
            /\ swaps.run = <<<<"push", c1>>, <<"push", c2>>, <<"pop", c2>>, <<"pop", c1>>>> =>
                  /\ env = swaps.env
                  /\ Restored(c1)
                  /\ Restored(c2)
            /\ swaps.run = <<<<"push", c1>>, <<"push", c2>>, <<"pop", c1>>, <<"pop", c2>>>> =>
                  \A x \in Symbols :
                      (NodeOf(c1, x) # 0 /\ NodeOf(c2, x) # 0) =>
                          /\ env[x] = swaps.nodes[NodeOf(c1, x)].value
                          /\ snodes[NodeOf(c1, x)].value = swaps.nodes[NodeOf(c2, x)].value
                          /\ snodes[NodeOf(c2, x)].value = swaps.env[x]
                          /\ swaps.nodes[NodeOf(c1, x)].value # swaps.env[x] =>
                                env[x] # swaps.env[x]

\* The pops were made in the order of the pushes on two chains naming one
\* variable, which is left with a value it did not have.
C17_Witness ==
    /\ swaps.run = <<<<"push", "A">>, <<"push", "B">>, <<"pop", "A">>, <<"pop", "B">>>>
    /\ \E x \in Symbols :
          /\ NodeOf("A", x) # 0
          /\ NodeOf("B", x) # 0
          /\ env[x] # swaps.env[x]
          /\ snodes[NodeOf("A", x)].value # swaps.nodes[NodeOf("A", x)].value

\* C18: new_rule_body(m, name, args, procedure, exported = false) with m not
\* the root module changes no slot of the root module's table; afterwards
\* bindrule(name, m) returns the rule with the procedure installed, and
\* bindrule(name, root) returns the root rule of that name, which is an empty
\* one just made unless the root table had the name before the call.
C18_UnexportedStaysLocal ==
    [][ (last'.op = "new_rule_body" /\ ~last'.exported /\ last'.m # root_module) =>
          LET after == St(0)'
              inm == bindrule(after, last'.name, last'.m)
              inroot == bindrule(after, last'.name, root_module)
          IN /\ rules'[root_module] = rules[root_module]
             /\ inm.r = <<last'.m, last'.name>>
             /\ inm.st = after
             /\ RuleAt(inm.st, inm.r).procedure = last'.p
             /\ RuleAt(inm.st, inm.r).arguments = last'.a
             /\ inroot.r = <<root_module, last'.name>>
             /\ last'.name \in DOMAIN rules[root_module] =>
                   RuleAt(inroot.st, inroot.r) = rules[root_module][last'.name]
             /\ last'.name \notin DOMAIN rules[root_module] =>
                   RuleAt(inroot.st, inroot.r) =
                       [name |-> last'.name, procedure |-> 0, arguments |-> 0,
                        actions |-> 0, exported |-> FALSE, module |-> root_module] ]_vars

\* A rule with arguments was defined unexported in module "a" while the root
\* module has rules, none of that name.
C18_Witness ==
    /\ last.op = "new_rule_body"
    /\ ~last.exported
    /\ last.m # root_module
    /\ last.a # 0
    /\ rules[last.m][last.name].procedure = last.p
    /\ last.name \notin DOMAIN rules[root_module]
    /\ DOMAIN rules[root_module] # {}

SeqSet(q) == {q[i] : i \in 1..Len(q)}

\* The nodes malloc returned that free() has not been given.
Allocated(nodes) == {n \in SNodeIds : nodes[n].allocated}

\* Every node malloc returned and donerules has not released is, once, in one
\* chain or in the free-list; no released node is in either.
NodesPlaced ==
    LET all == ChainNodes(snodes, shead["A"]) \o ChainNodes(snodes, shead["B"])
                   \o ChainNodes(snodes, settings_freelist)
    IN /\ \A i, j \in 1..Len(all) : i # j => all[i] # all[j]
       /\ SeqSet(all) = Allocated(snodes)

\* C19: every settings node obtained from malloc is in exactly one place,
\* one chain or the free-list, until donerules releases it; addsettings calls
\* malloc only when the free-list is empty and otherwise takes the free-list's
\* first node; freesettings moves the chain's nodes to the free-list and
\* releases none; donerules releases the free-list's nodes, leaves it empty
\* and leaves the chains alone.
C19_NodesInOnePlace ==
    /\ []NodesPlaced
    /\ [][ LET free == SeqSet(ChainNodes(snodes, settings_freelist))
               free2 == SeqSet(ChainNodes(snodes', settings_freelist'))
               c == slast'.c
           IN /\ slast'.op = "addsettings" =>
                    /\ Allocated(snodes) \subseteq Allocated(snodes')
                    /\ Allocated(snodes') # Allocated(snodes) =>
                          /\ settings_freelist = 0
                          /\ Cardinality(Allocated(snodes') \ Allocated(snodes)) = 1
                    /\ (settings_freelist # 0 /\ ~slast'.found) =>
                          /\ shead'[c] = settings_freelist
                          /\ free2 = free \ {settings_freelist}
                    /\ slast'.found => free2 = free
              /\ slast'.op = "freesettings" =>
                    /\ Allocated(snodes') = Allocated(snodes)
                    /\ free2 = free \cup SeqSet(ChainNodes(snodes, shead[c]))
                    /\ shead'[c] = 0
              /\ slast'.op = "donerules" =>
                    /\ settings_freelist' = 0
                    /\ Allocated(snodes') = Allocated(snodes) \ free
                    /\ \A k \in Chains :
                          /\ shead'[k] = shead[k]
                          /\ \A n \in SeqSet(ChainNodes(snodes, shead[k])) :
                                snodes'[n] = snodes[n] ]_vars

\* donerules ran after three calls that built two chains and freed one:
\* the other chain keeps its node, the only one still allocated.
C19_Witness ==
    /\ slast.op = "donerules"
    /\ nscalls = 3
    /\ settings_freelist = 0
    /\ shead["A"] = 0
    /\ shead["B"] # 0
    /\ Cardinality(Allocated(snodes)) = 1

\* C20: in every state reached by bindtarget, touchtarget, targetlist and
\* donerules calls, targethash is null, so that the next bindtarget makes a
\* table, or points to a table that has not been torn down.
C20_TableNotTornDown == targethash \in {"null", "live"}

====
